---- MODULE Spec2Model ----
(***************************************************************************)
(* The convolution routines of convolve.c as a state machine over a flat   *)
(* memory.  A call is a record (the routine, its arguments as base         *)
(* addresses and lengths, its locals and its position); the caller's       *)
(* buffers live in the memory `mem', so that a store through `out + i'     *)
(* lands on whatever cell has that address.  Samples are integers, where   *)
(* no rounding occurs.                                                     *)
(***************************************************************************)
EXTENDS Integers, Sequences, FiniteSets, TLC

VARIABLES mem, call, call2, lin

vars == <<mem, call, call2, lin>>

(* ------------------------------------------------------------------ *)
(* Program constants                                                  *)
(* ------------------------------------------------------------------ *)
SSE_SIMD_LENGTH == 4
AVX_SIMD_LENGTH == 8
KERNEL_LENGTH == 16
VECTOR_LENGTH == 16

(* ------------------------------------------------------------------ *)
(* Bounds of the model                                                *)
(* ------------------------------------------------------------------ *)
\* kernel lengths 1..MaxK for the routines without a kernel-length precondition
MaxK == 3
\* kernel lengths 4, 8, .. 4*MaxKBlocks for the multiple-of-4 routines
MaxKBlocks == 2
\* length - kernel_length ranges over the values within MaxExtra of 0 and of
\* the main-loop step S: 0..MaxExtra and S-MaxExtra..S+MaxExtra
MaxExtra == 1
\* number of (signal, kernel) pairs of the input family
NumInputs == 2
\* number of different prior contents of uninitialised memory
NumJunk == 2
\* unmapped cells that follow each caller buffer placed apart from the others
Pad == 16
\* kernel lengths 1..MaxLinK of the linearity check
MaxLinK == 2

(* ------------------------------------------------------------------ *)
(* The routines                                                       *)
(* ------------------------------------------------------------------ *)
ScalarVariants == {"convolve_naive", "convolve_reversed_naive"}

AnyKVariants == {"convolve_sse_simple"}

Mult4Variants == {"convolve_sse_partial_unroll", "convolve_sse_in_aligned"}

FixedVariants ==
    {"convolve_sse_in_aligned_fixed_kernel",
     "convolve_sse_unrolled_avx_vector",
     "convolve_sse_unrolled_vector",
     "convolve_avx_unrolled_vector",
     "convolve_avx_unrolled_vector_unaligned",
     "convolve_avx_unrolled_vector_unaligned_fma",
     "convolve_avx_unrolled_vector_m128_load",
     "convolve_avx_unrolled_vector_aligned",
     "convolve_avx_unrolled_vector_partial_aligned",
     "convolve_avx_unrolled_vector_local_output"}

VectorVariants == AnyKVariants \cup Mult4Variants \cup FixedVariants

Variants == ScalarVariants \cup VectorVariants

\* The sixteen-tap routines that advance by VECTOR_LENGTH or AVX_SIMD_LENGTH
SixteenTapVariants == FixedVariants \ {"convolve_sse_in_aligned_fixed_kernel"}

\* The kernel lengths a routine documents as valid
ValidK(v) ==
    IF v \in FixedVariants THEN {KERNEL_LENGTH}
    ELSE IF v \in Mult4Variants
         THEN {SSE_SIMD_LENGTH * q : q \in 1..MaxKBlocks}
         ELSE 1..MaxK

(* ------------------------------------------------------------------ *)
(* Loop nests of the vectorised main loops.  A nest is                *)
(*   for k (nk values, step kStep) for l (nl values) for m (nm        *)
(*   values, step mStep) { stmts }                                    *)
(* and a statement accumulates, into accumulator a,                   *)
(*   kernel_reverse[k+l+m+kr] * load(base(l) + data_offset + m + off) *)
(* `rows' says the load goes to in_aligned[l] rather than to in + l;  *)
(* `w' is the lanes of a register, `parts' how many loads make one    *)
(* register, `step' the increment of i, `decl'/`copied' the replica   *)
(* rows declared and filled.  `al' gives, per statement, the          *)
(* alignment in floats its load instruction requires: 4 for           *)
(* _mm_load_ps, 8 for _mm256_load_ps, 0 for the loadu forms.          *)
(* ------------------------------------------------------------------ *)
St(a, kr, off) == [a |-> a, kr |-> kr, off |-> off]

convolve_sse_simple_nest(K) ==
    [step |-> 4, w |-> 4, parts |-> 1, rows |-> FALSE, decl |-> 0, copied |-> 0,
     kStep |-> 1, nk |-> K, nl |-> 1, mStep |-> 1, nm |-> 1,
     stmts |-> <<St(0, 0, 0)>>, naccs |-> 1,
     al |-> <<0>>]

convolve_sse_partial_unroll_nest(K) ==
    [step |-> 4, w |-> 4, parts |-> 1, rows |-> FALSE, decl |-> 0, copied |-> 0,
     kStep |-> 4, nk |-> K \div 4, nl |-> 4, mStep |-> 1, nm |-> 1,
     stmts |-> <<St(0, 0, 0)>>, naccs |-> 1,
     al |-> <<0>>]

convolve_sse_in_aligned_nest(K) ==
    [step |-> 4, w |-> 4, parts |-> 1, rows |-> TRUE, decl |-> 4, copied |-> 4,
     kStep |-> 4, nk |-> K \div 4, nl |-> 4, mStep |-> 1, nm |-> 1,
     stmts |-> <<St(0, 0, 0)>>, naccs |-> 1,
     al |-> <<4>>]

convolve_sse_in_aligned_fixed_kernel_nest ==
    [step |-> 4, w |-> 4, parts |-> 1, rows |-> TRUE, decl |-> 4, copied |-> 4,
     kStep |-> 4, nk |-> KERNEL_LENGTH \div 4, nl |-> 4, mStep |-> 1, nm |-> 1,
     stmts |-> <<St(0, 0, 0)>>, naccs |-> 1,
     al |-> <<4>>]

convolve_sse_unrolled_avx_vector_nest ==
    [step |-> AVX_SIMD_LENGTH, w |-> 4, parts |-> 1, rows |-> TRUE,
     decl |-> SSE_SIMD_LENGTH, copied |-> 4,
     kStep |-> AVX_SIMD_LENGTH, nk |-> KERNEL_LENGTH \div AVX_SIMD_LENGTH,
     nl |-> 4, mStep |-> 1, nm |-> 1,
     stmts |-> <<St(0, 0, 0), St(1, 0, 4), St(0, 4, 4), St(1, 4, 8)>>,
     naccs |-> 2,
     al |-> <<4, 4, 4, 4>>]

convolve_sse_unrolled_vector_nest ==
    [step |-> VECTOR_LENGTH, w |-> 4, parts |-> 1, rows |-> TRUE,
     decl |-> SSE_SIMD_LENGTH, copied |-> SSE_SIMD_LENGTH,
     kStep |-> VECTOR_LENGTH, nk |-> KERNEL_LENGTH \div VECTOR_LENGTH,
     nl |-> SSE_SIMD_LENGTH, mStep |-> SSE_SIMD_LENGTH,
     nm |-> VECTOR_LENGTH \div SSE_SIMD_LENGTH,
     stmts |-> <<St(0, 0, 0), St(1, 0, SSE_SIMD_LENGTH),
                 St(2, 0, SSE_SIMD_LENGTH * 2), St(3, 0, SSE_SIMD_LENGTH * 3)>>,
     naccs |-> 4,
     al |-> <<4, 4, 4, 4>>]

convolve_avx_unrolled_vector_nest ==
    [step |-> VECTOR_LENGTH, w |-> 8, parts |-> 1, rows |-> TRUE,
     decl |-> AVX_SIMD_LENGTH, copied |-> SSE_SIMD_LENGTH,
     kStep |-> VECTOR_LENGTH, nk |-> KERNEL_LENGTH \div VECTOR_LENGTH,
     nl |-> SSE_SIMD_LENGTH, mStep |-> SSE_SIMD_LENGTH,
     nm |-> VECTOR_LENGTH \div SSE_SIMD_LENGTH,
     stmts |-> <<St(0, 0, 0), St(1, 0, AVX_SIMD_LENGTH)>>, naccs |-> 2,
     al |-> <<0, 0>>]

convolve_avx_unrolled_vector_unaligned_nest ==
    [step |-> VECTOR_LENGTH, w |-> 8, parts |-> 1, rows |-> FALSE,
     decl |-> 0, copied |-> 0,
     kStep |-> VECTOR_LENGTH, nk |-> KERNEL_LENGTH \div VECTOR_LENGTH,
     nl |-> SSE_SIMD_LENGTH, mStep |-> SSE_SIMD_LENGTH,
     nm |-> VECTOR_LENGTH \div SSE_SIMD_LENGTH,
     stmts |-> <<St(0, 0, 0), St(1, 0, AVX_SIMD_LENGTH)>>, naccs |-> 2,
     al |-> <<0, 0>>]

convolve_avx_unrolled_vector_unaligned_fma_nest ==
    [step |-> VECTOR_LENGTH, w |-> 8, parts |-> 1, rows |-> FALSE,
     decl |-> 0, copied |-> 0,
     kStep |-> VECTOR_LENGTH, nk |-> KERNEL_LENGTH \div VECTOR_LENGTH,
     nl |-> SSE_SIMD_LENGTH, mStep |-> SSE_SIMD_LENGTH,
     nm |-> VECTOR_LENGTH \div SSE_SIMD_LENGTH,
     stmts |-> <<St(0, 0, 0), St(1, 0, AVX_SIMD_LENGTH)>>, naccs |-> 2,
     al |-> <<0, 0>>]

convolve_avx_unrolled_vector_m128_load_nest ==
    [step |-> VECTOR_LENGTH, w |-> 8, parts |-> 2, rows |-> TRUE,
     decl |-> AVX_SIMD_LENGTH, copied |-> SSE_SIMD_LENGTH,
     kStep |-> VECTOR_LENGTH, nk |-> KERNEL_LENGTH \div VECTOR_LENGTH,
     nl |-> SSE_SIMD_LENGTH, mStep |-> SSE_SIMD_LENGTH,
     nm |-> VECTOR_LENGTH \div SSE_SIMD_LENGTH,
     stmts |-> <<St(0, 0, 0), St(1, 0, AVX_SIMD_LENGTH)>>, naccs |-> 2,
     al |-> <<4, 4>>]

convolve_avx_unrolled_vector_aligned_nest ==
    [step |-> VECTOR_LENGTH, w |-> 8, parts |-> 1, rows |-> TRUE,
     decl |-> AVX_SIMD_LENGTH, copied |-> AVX_SIMD_LENGTH,
     kStep |-> VECTOR_LENGTH, nk |-> KERNEL_LENGTH \div VECTOR_LENGTH,
     nl |-> AVX_SIMD_LENGTH, mStep |-> AVX_SIMD_LENGTH,
     nm |-> VECTOR_LENGTH \div AVX_SIMD_LENGTH,
     stmts |-> <<St(0, 0, 0), St(1, 0, AVX_SIMD_LENGTH)>>, naccs |-> 2,
     al |-> <<8, 8>>]

convolve_avx_unrolled_vector_partial_aligned_nest ==
    [step |-> VECTOR_LENGTH, w |-> 8, parts |-> 1, rows |-> TRUE,
     decl |-> AVX_SIMD_LENGTH, copied |-> SSE_SIMD_LENGTH,
     kStep |-> VECTOR_LENGTH, nk |-> KERNEL_LENGTH \div VECTOR_LENGTH,
     nl |-> SSE_SIMD_LENGTH, mStep |-> AVX_SIMD_LENGTH,
     nm |-> VECTOR_LENGTH \div AVX_SIMD_LENGTH,
     stmts |-> <<St(0, 0, 0), St(1, 0, AVX_SIMD_LENGTH),
                 St(0, SSE_SIMD_LENGTH, SSE_SIMD_LENGTH),
                 St(1, SSE_SIMD_LENGTH, SSE_SIMD_LENGTH + AVX_SIMD_LENGTH)>>,
     naccs |-> 2,
     al |-> <<8, 8, 0, 0>>]

convolve_avx_unrolled_vector_local_output_nest ==
    [step |-> VECTOR_LENGTH, w |-> 8, parts |-> 1, rows |-> TRUE,
     decl |-> AVX_SIMD_LENGTH, copied |-> SSE_SIMD_LENGTH,
     kStep |-> VECTOR_LENGTH, nk |-> KERNEL_LENGTH \div VECTOR_LENGTH,
     nl |-> SSE_SIMD_LENGTH, mStep |-> SSE_SIMD_LENGTH,
     nm |-> VECTOR_LENGTH \div SSE_SIMD_LENGTH,
     stmts |-> <<St(0, 0, 0), St(1, 0, AVX_SIMD_LENGTH)>>, naccs |-> 2,
     al |-> <<0, 0>>]

Nest(v, K) ==
    CASE v = "convolve_sse_simple" -> convolve_sse_simple_nest(K)
      [] v = "convolve_sse_partial_unroll" -> convolve_sse_partial_unroll_nest(K)
      [] v = "convolve_sse_in_aligned" -> convolve_sse_in_aligned_nest(K)
      [] v = "convolve_sse_in_aligned_fixed_kernel" ->
             convolve_sse_in_aligned_fixed_kernel_nest
      [] v = "convolve_sse_unrolled_avx_vector" ->
             convolve_sse_unrolled_avx_vector_nest
      [] v = "convolve_sse_unrolled_vector" -> convolve_sse_unrolled_vector_nest
      [] v = "convolve_avx_unrolled_vector" -> convolve_avx_unrolled_vector_nest
      [] v = "convolve_avx_unrolled_vector_unaligned" ->
             convolve_avx_unrolled_vector_unaligned_nest
      [] v = "convolve_avx_unrolled_vector_unaligned_fma" ->
             convolve_avx_unrolled_vector_unaligned_fma_nest
      [] v = "convolve_avx_unrolled_vector_m128_load" ->
             convolve_avx_unrolled_vector_m128_load_nest
      [] v = "convolve_avx_unrolled_vector_aligned" ->
             convolve_avx_unrolled_vector_aligned_nest
      [] v = "convolve_avx_unrolled_vector_partial_aligned" ->
             convolve_avx_unrolled_vector_partial_aligned_nest
      [] v = "convolve_avx_unrolled_vector_local_output" ->
             convolve_avx_unrolled_vector_local_output_nest

\* The increment of the main loop's i (1 for the scalar routines)
Step(v, K) == IF v \in ScalarVariants THEN 1 ELSE Nest(v, K).step

(* ------------------------------------------------------------------ *)
(* Inputs: families of signals and kernels, prior memory contents      *)
(* ------------------------------------------------------------------ *)
\* sample x of signal s; signal 1 is 1, 2, 3, 4, 5, ...
SigVal(s, x) == IF s = 1 THEN x + 1 ELSE ((x * x + s * x + s) % 5) - 2

\* coefficient x of kernel t; kernel 1 is 1, 0, -1, ...
KerVal(t, x) == IF t = 1 THEN 1 - x ELSE ((x * (t + 1) + 1) % 4) - 1

\* the value an uninitialised cell holds before the call
JunkVal(j) == 3 * j + 4

\* length - kernel_length for a routine of main-loop step S
Diffs(S) == {d \in 0..(S + MaxExtra) : d <= MaxExtra + 1 \/ d >= S - MaxExtra}

\* The caller places the three buffers: apart from each other, or with the
\* signal or the kernel right behind the output
Layouts == {"apart", "out_in", "out_kernel"}

OutLen(N, K) == N - K + 1

InBase(lay, N, K) ==
    CASE lay = "apart" -> OutLen(N, K) + Pad
      [] lay = "out_in" -> OutLen(N, K)
      [] lay = "out_kernel" -> OutLen(N, K) + K + Pad

KernelBase(lay, N, K) ==
    CASE lay = "apart" -> OutLen(N, K) + Pad + N + Pad
      [] lay = "out_in" -> OutLen(N, K) + N + Pad
      [] lay = "out_kernel" -> OutLen(N, K)

MemTop(N, K) == OutLen(N, K) + N + K + 3 * Pad

(* ------------------------------------------------------------------ *)
(* A call: arguments, locals, position                                *)
(* ------------------------------------------------------------------ *)
\* Besides the arguments and the locals of the source, a call keeps a log of
\* what it did: hi (highest index of out stored to), wr (stores per index of
\* the caller's out), vw (main-loop vector stores per index of their
\* destination), tailw (indices the fallback stored to), nvec (vector stores
\* made), bad (a load lane was not a signal sample), misal (an aligned load
\* was made at a misaligned address), copyrd (per replica row, the signal
\* indices its memcpy read).
NoCall == [pc |-> "none"]

KLen(c) == IF c.v \in FixedVariants THEN KERNEL_LENGTH ELSE c.kernel_length

Last(c) == c.length - KLen(c)

NestOf(c) == Nest(c.v, c.kernel_length)

IsLocalOut(c) == c.v = "convolve_avx_unrolled_vector_local_output"

NewCall(v, N, K, inB, outB, kB, s, t, jv, adj) ==
    [v |-> v, length |-> N, kernel_length |-> K,
     in |-> inB, out |-> outB, kernel |-> kB,
     sig |-> s, ker |-> t, junk |-> jv, adj |-> adj,
     pc |-> CASE v = "convolve_naive" -> "main"
              [] v = "convolve_reversed_naive" -> "zero"
              [] OTHER -> "reverse",
     i |-> 0, k |-> 0, kernel_value |-> 0,
     kernel_reverse |-> << >>,
     in_aligned |-> IF v \in VectorVariants /\ Nest(v, K).rows
                    THEN [f \in 0..(Nest(v, K).decl * N - 1) |-> jv]
                    ELSE << >>,
     local_out |-> IF v = "convolve_avx_unrolled_vector_local_output"
                   THEN [x \in 0..(N - KERNEL_LENGTH) |-> jv]
                   ELSE << >>,
     nvec |-> 0, hi |-> -1, bad |-> FALSE, tailw |-> {},
     wr |-> [x \in 0..(N - K) |-> 0],
     vw |-> IF v \in VectorVariants
            THEN [x \in 0..(N - K + Nest(v, K).step) |-> 0]
            ELSE << >>,
     misal |-> FALSE,
     copyrd |-> << >>]

\* the addresses of the caller's buffers of call c
MappedOf(c) ==
    IF c.pc = "none" THEN {}
    ELSE (c.in .. (c.in + c.length - 1))
         \cup (c.out .. (c.out + c.length - c.kernel_length))
         \cup (c.kernel .. (c.kernel + c.kernel_length - 1))

Max(a, b) == IF a >= b THEN a ELSE b

\* the store counts f with one more store at each index of S
Bump(f, S) == [x \in DOMAIN f |-> IF x \in S THEN f[x] + 1 ELSE f[x]]

Res(c, m) == [c |-> c, m |-> m]

(* ------------------------------------------------------------------ *)
(* convolve_naive                                                     *)
(* ------------------------------------------------------------------ *)
\* a faulty RevIdx: the kernel is walked forwards, without the reversal
RevIdxForward(K, k) == k

\* the kernel index the scalar loops pair with inner index k
RevIdx(K, k) == K - k - 1

\* a faulty NaiveZero: out[i] = 0.0 is left out, the sum starts from what
\* out[i] held
NaiveZeroMissing(m, a) == m[a]

\* out[i] = 0.0: the value the cell at address a holds before the inner loop
NaiveZero(m, a) == 0

\* out[i] after n iterations of the inner loop, from out[i] = z
RECURSIVE NaiveAcc(_, _, _, _, _, _, _)
NaiveAcc(m, inB, kB, K, i, n, z) ==
    IF n = 0 THEN z
    ELSE NaiveAcc(m, inB, kB, K, i, n - 1, z)
         + m[inB + i + (n - 1)] * m[kB + RevIdx(K, n - 1)]

NaiveGuard(c) == c.v = "convolve_naive" /\ c.pc = "main"
                 /\ c.i <= c.length - c.kernel_length

\* one iteration of the outer loop
NaiveIter(c, m) ==
    Res([c EXCEPT !.i = c.i + 1,
                  !.hi = Max(c.hi, c.i),
                  !.wr[c.i] = c.wr[c.i] + 1 + c.kernel_length,
                  !.pc = IF c.i + 1 <= c.length - c.kernel_length
                         THEN "main" ELSE "done"],
        [m EXCEPT ![c.out + c.i] =
             NaiveAcc(m, c.in, c.kernel, c.kernel_length, c.i, c.kernel_length,
                      NaiveZero(m, c.out + c.i))])

(* ------------------------------------------------------------------ *)
(* convolve_reversed_naive                                            *)
(* ------------------------------------------------------------------ *)
ReversedZeroGuard(c) == c.v = "convolve_reversed_naive" /\ c.pc = "zero"
                        /\ c.i <= c.length - c.kernel_length

\* where the first loop goes after its iteration at c.i
ReversedZeroNext(c) ==
    IF c.i + 1 <= c.length - c.kernel_length
    THEN [c EXCEPT !.i = c.i + 1]
    ELSE [c EXCEPT !.i = 0, !.k = 0, !.pc = "main"]

\* a faulty ReversedZero: the store is left out, out[i] keeps its prior
\* contents
ReversedZeroSkipped(c, m) == Res(ReversedZeroNext(c), m)

\* one iteration of the first loop: out[i] = 0.0
ReversedZero(c, m) ==
    Res([ReversedZeroNext(c) EXCEPT !.hi = Max(c.hi, c.i),
                                    !.wr[c.i] = c.wr[c.i] + 1],
        [m EXCEPT ![c.out + c.i] = 0])

ReversedTapGuard(c) == c.v = "convolve_reversed_naive" /\ c.pc = "main"
                       /\ c.k < c.kernel_length
                       /\ c.i <= c.length - c.kernel_length

\* a faulty ReversedSample: the shift by k is left out
ReversedSampleUnshifted(i, k) == i

\* the signal index the inner loop pairs with output index i under tap k
ReversedSample(i, k) == i + k

\* one iteration of the inner loop: out[i] += in[i+k] * kernel_value, with
\* kernel_value read when the outer iteration begins
ReversedTap(c, m) ==
    LET kernel_value == IF c.i = 0
                        THEN m[c.kernel + RevIdx(c.kernel_length, c.k)]
                        ELSE c.kernel_value
        more == c.i + 1 <= c.length - c.kernel_length
    IN Res([c EXCEPT !.kernel_value = kernel_value,
                     !.wr[c.i] = c.wr[c.i] + 1,
                     !.i = IF more THEN c.i + 1 ELSE 0,
                     !.k = IF more THEN c.k ELSE c.k + 1,
                     !.pc = IF more \/ c.k + 1 < c.kernel_length
                            THEN "main" ELSE "done"],
           [m EXCEPT ![c.out + c.i] =
               m[c.out + c.i] + m[c.in + ReversedSample(c.i, c.k)] * kernel_value])

(* ------------------------------------------------------------------ *)
(* The vectorised routines: setup                                     *)
(* ------------------------------------------------------------------ *)
ReverseKernelGuard(c) == c.v \in VectorVariants /\ c.pc = "reverse"

\* kernel_reverse[i]: coefficient kernel_length - i - 1 in every lane
ReverseKernel(c, m) ==
    LET n == IF c.v = "convolve_sse_in_aligned_fixed_kernel"
             THEN c.kernel_length ELSE KLen(c)
        w == NestOf(c).w
    IN Res([c EXCEPT !.kernel_reverse =
                        [i \in 0..(n - 1) |->
                            [j \in 0..(w - 1) |-> m[c.kernel + RevIdx(n, i)]]],
                     !.pc = IF NestOf(c).rows THEN "replica" ELSE "main"],
           m)

BuildReplicasGuard(c) == c.v \in VectorVariants /\ c.pc = "replica"

\* the cell of the flat array float in_aligned[decl][length] that row r,
\* position x occupies
RowCell(N, r, x) == r * N + x

\* a faulty ReplicaSrc: every row is copied from in, without the shift
ReplicaSrcUnshifted(r, x) == x

\* the signal index memcpy(in_aligned[r], in + r, ..) copies to position x
ReplicaSrc(r, x) == r + x

\* the number of floats the memcpy of row r copies
CopyLen(N, r) == N - r

\* memcpy(in_aligned[i], in + i, (length - i) * sizeof(float)) for each row
BuildReplicas(c, m) ==
    LET N == c.length
        rows == NestOf(c).copied
    IN Res([c EXCEPT !.in_aligned =
                        [f \in DOMAIN c.in_aligned |->
                            LET r == f \div N
                                x == f % N
                            IN IF r < rows /\ x < CopyLen(N, r)
                               THEN m[c.in + ReplicaSrc(r, x)]
                               ELSE c.in_aligned[f]],
                     !.copyrd =
                        [r \in 0..(rows - 1) |->
                            {ReplicaSrc(r, x) : x \in 0..(CopyLen(N, r) - 1)}],
                     !.pc = "main"],
           m)

(* ------------------------------------------------------------------ *)
(* The vectorised routines: main loop                                 *)
(* ------------------------------------------------------------------ *)
\* element x of in_aligned[l], as the machine addresses it: past the end of
\* a row lies the next row, past the array other stack contents
RdRow(c, l, x) ==
    LET f == RowCell(c.length, l, x)
    IN IF f < NestOf(c).decl * c.length THEN c.in_aligned[f] ELSE c.junk

\* lane j of the register loaded from in_aligned[l] + x, or from in + l + x
LoadLane(c, m, l, x, j) ==
    IF NestOf(c).rows THEN RdRow(c, l, x + j) ELSE m[c.in + l + x + j]

\* lane j of data_block: one load, or two half-width loads joined
DataBlock(c, m, l, x, j) ==
    IF NestOf(c).parts = 1 THEN LoadLane(c, m, l, x, j)
    ELSE IF j < SSE_SIMD_LENGTH
         THEN LoadLane(c, m, l, x, j)
         ELSE LoadLane(c, m, l, x + SSE_SIMD_LENGTH, j - SSE_SIMD_LENGTH)

\* the n-th statement executed in one main-loop iteration (n from 0), with
\* the loop indices it runs under
NthStmt(nest, n) ==
    LET ns == Len(nest.stmts)
        st == nest.stmts[(n % ns) + 1]
        mm == nest.mStep * ((n \div ns) % nest.nm)
        l  == (n \div (ns * nest.nm)) % nest.nl
        k  == nest.kStep * (n \div (ns * nest.nm * nest.nl))
    IN [a |-> st.a, kr |-> k + l + mm + st.kr, l |-> l, x |-> k + mm + st.off,
        al |-> nest.al[(n % ns) + 1]]

NumStmts(nest) == Len(nest.stmts) * nest.nm * nest.nl * nest.nk

\* lane j of accumulator a after the first n statements of the iteration at i
RECURSIVE AccLane(_, _, _, _, _)
AccLane(c, m, a, j, n) ==
    IF n = 0 THEN 0
    ELSE LET e == NthStmt(NestOf(c), n - 1)
         IN AccLane(c, m, a, j, n - 1)
            + (IF e.a = a
               THEN c.kernel_reverse[e.kr][j] * DataBlock(c, m, e.l, c.i + e.x, j)
               ELSE 0)

\* the value the iteration at c.i stores at index c.i + d of its destination
StoredLane(c, m, d) ==
    LET nest == NestOf(c)
    IN AccLane(c, m, d \div nest.w, d % nest.w, NumStmts(nest))

\* some lane of some load of the iteration at c.i is not a signal sample:
\* it lies past in[length - 1], or past the copied part of its replica row
BadLoad(c) ==
    LET nest == NestOf(c)
    IN \E n \in 0..(NumStmts(nest) - 1) :
          LET e == NthStmt(nest, n)
          IN e.l + c.i + e.x + nest.w - 1 > c.length - 1

\* some aligned load of the iteration at c.i is made at an address that is
\* not a multiple of its alignment: in_aligned itself is aligned to 16 or 32
\* bytes, row l begins l * length floats into it
Misaligned(c) ==
    LET nest == NestOf(c)
    IN \E n \in 0..(NumStmts(nest) - 1) :
          LET e == NthStmt(nest, n)
          IN e.al > 0 /\ (RowCell(c.length, e.l, c.i + e.x) % e.al) # 0

\* the addresses of the caller's memory the iteration at c.i touches
Touched(c) ==
    LET nest == NestOf(c)
    IN (IF IsLocalOut(c) THEN {}
        ELSE (c.out + c.i) .. (c.out + c.i + nest.step - 1))
       \cup
       (IF nest.rows THEN {}
        ELSE UNION {LET e == NthStmt(nest, n)
                    IN (c.in + e.l + c.i + e.x) .. (c.in + e.l + c.i + e.x + nest.w - 1)
                    : n \in 0..(NumStmts(nest) - 1)})

\* a faulty MainCond: the loop stops before the first step that is not
\* wholly inside the output
MainCondFullSteps(c) == c.i + NestOf(c).step <= Last(c)

\* a faulty MainCond: <= in place of <
MainCondInclusive(c) == c.i <= Last(c)

\* the main loop's condition
MainCond(c) == c.i < Last(c)

MainLoopGuard(c) == c.v \in VectorVariants /\ c.pc = "main" /\ MainCond(c)

\* where local_out ends on the stack, rounded up to the alignment of the
\* array declared before it
RoundUp(n, a) == ((n + a - 1) \div a) * a

\* one iteration of the main loop: accumulate, then store the accumulators
MainLoopIter(c, m) ==
    LET nest == NestOf(c)
        ol == Last(c) + 1
        lanes == c.i .. (c.i + nest.step - 1)
        c1 == [c EXCEPT !.i = c.i + nest.step,
                        !.nvec = c.nvec + nest.naccs,
                        !.vw = Bump(c.vw, lanes),
                        !.bad = c.bad \/ BadLoad(c),
                        !.misal = c.misal \/ Misaligned(c)]
    IN IF IsLocalOut(c)
       THEN Res([c1 EXCEPT
                    !.local_out =
                        [x \in DOMAIN c.local_out |->
                            IF x - c.i \in 0..(nest.step - 1)
                            THEN StoredLane(c, m, x - c.i)
                            ELSE c.local_out[x]],
                    !.in_aligned =
                        [f \in DOMAIN c.in_aligned |->
                            LET x == f + RoundUp(ol, AVX_SIMD_LENGTH)
                            IN IF c.adj /\ x - c.i \in 0..(nest.step - 1)
                               THEN StoredLane(c, m, x - c.i)
                               ELSE c.in_aligned[f]]],
                m)
       ELSE Res([c1 EXCEPT !.hi = Max(c.hi, c.i + nest.step - 1),
                           !.wr = Bump(c.wr, lanes)],
                [a \in DOMAIN m |->
                    IF a - c.out - c.i \in 0..(nest.step - 1)
                    THEN StoredLane(c, m, a - c.out - c.i)
                    ELSE m[a]])

\* an iteration that touches an address outside every buffer, or makes an
\* aligned load at a misaligned address, may trap instead
FaultGuard(c, mapped) ==
    MainLoopGuard(c) /\ (~(Touched(c) \subseteq mapped) \/ Misaligned(c))

Fault(c, m) ==
    Res([c EXCEPT !.pc = "fault",
                  !.bad = c.bad \/ BadLoad(c),
                  !.misal = c.misal \/ Misaligned(c)],
        m)

(* ------------------------------------------------------------------ *)
(* The vectorised routines: scalar fallback for the last value        *)
(* ------------------------------------------------------------------ *)
TailZeroGuard(c) == c.v \in VectorVariants /\ c.pc = "main" /\ ~MainCond(c)

\* a faulty TailIndex: the index after the last output
TailIndexPastEnd(c) == Last(c) + 1

\* the index the fallback computes
TailIndex(c) == Last(c)

\* int i = length - kernel_length; out[i] = 0.0;
TailZero(c, m) ==
    LET i == TailIndex(c)
        c1 == [c EXCEPT !.pc = "tail", !.k = 0, !.i = i,
                        !.tailw = c.tailw \cup {i}]
    IN IF IsLocalOut(c)
       THEN Res([c1 EXCEPT !.local_out[i] = 0], m)
       ELSE Res([c1 EXCEPT !.hi = Max(c.hi, i), !.wr = Bump(c.wr, {i})],
                [m EXCEPT ![c.out + i] = 0])

\* the signal sample the fallback reads for position x
TailSample(c, m, x) == IF NestOf(c).rows THEN RdRow(c, 0, x) ELSE m[c.in + x]

TailTapGuard(c) == c.v \in VectorVariants /\ c.pc = "tail" /\ c.k < KLen(c)

\* out[i] += in[i+k] * kernel[kernel_length - k - 1];
TailTap(c, m) ==
    LET i == c.i
        p == TailSample(c, m, i + c.k) * m[c.kernel + RevIdx(KLen(c), c.k)]
        c1 == [c EXCEPT !.k = c.k + 1,
                        !.tailw = c.tailw \cup {i},
                        !.pc = IF c.k + 1 < KLen(c) THEN "tail"
                               ELSE IF IsLocalOut(c) THEN "copy" ELSE "done"]
    IN IF IsLocalOut(c)
       THEN Res([c1 EXCEPT !.local_out[i] = c.local_out[i] + p], m)
       ELSE Res([c1 EXCEPT !.wr = Bump(c.wr, {i})],
                [m EXCEPT ![c.out + i] = m[c.out + i] + p])

BulkCopyGuard(c) == IsLocalOut(c) /\ c.pc = "copy"

\* a faulty BulkCopyLen: the + 1 is left out
BulkCopyLenShort(c) == c.length - KERNEL_LENGTH

\* the number of floats the final memcpy copies
BulkCopyLen(c) == c.length - KERNEL_LENGTH + 1

\* memcpy(out, local_out, (length - KERNEL_LENGTH + 1) * sizeof(float));
BulkCopy(c, m) ==
    LET copied == 0..(BulkCopyLen(c) - 1)
    IN Res([c EXCEPT !.pc = "done",
                     !.hi = Max(c.hi, BulkCopyLen(c) - 1),
                     !.wr = Bump(c.wr, copied)],
           [a \in DOMAIN m |->
               IF a - c.out \in copied THEN c.local_out[a - c.out] ELSE m[a]])

(* ------------------------------------------------------------------ *)
(* One call on the caller's memory                                    *)
(* ------------------------------------------------------------------ *)
NoLin == [phase |-> "none"]

\* the memory at call entry: the signal and the kernel in their buffers,
\* prior contents everywhere else (the output buffer included)
InitMem(N, K, inB, kB, s, t, jv) ==
    [a \in 0..(MemTop(N, K) - 1) |->
        IF a - inB \in 0..(N - 1) THEN SigVal(s, a - inB)
        ELSE IF a - kB \in 0..(K - 1) THEN KerVal(t, a - kB)
        ELSE jv]

Init ==
    \E v \in Variants, p \in 1..NumInputs,
       lay \in Layouts, j \in 1..NumJunk, adj \in BOOLEAN :
      \E K \in ValidK(v) :
        \E d \in Diffs(Step(v, K)) :
          LET N == K + d
              s == p
              t == p
              inB == InBase(lay, N, K)
              kB == KernelBase(lay, N, K)
          IN /\ (adj => v = "convolve_avx_unrolled_vector_local_output")
             /\ call = NewCall(v, N, K, inB, 0, kB, s, t, JunkVal(j), adj)
             /\ mem = InitMem(N, K, inB, kB, s, t, JunkVal(j))
             /\ call2 = NoCall
             /\ lin = NoLin

Do(r) == call' = r.c /\ mem' = r.m /\ UNCHANGED <<call2, lin>>

Naive == NaiveGuard(call) /\ Do(NaiveIter(call, mem))

RevZero == ReversedZeroGuard(call) /\ Do(ReversedZero(call, mem))

RevTap == ReversedTapGuard(call) /\ Do(ReversedTap(call, mem))

RevKernel == ReverseKernelGuard(call) /\ Do(ReverseKernel(call, mem))

Replicas == BuildReplicasGuard(call) /\ Do(BuildReplicas(call, mem))

MainLoop == MainLoopGuard(call) /\ Do(MainLoopIter(call, mem))

Trap == FaultGuard(call, MappedOf(call)) /\ Do(Fault(call, mem))

TailInit == TailZeroGuard(call) /\ Do(TailZero(call, mem))

TailAdd == TailTapGuard(call) /\ Do(TailTap(call, mem))

Copy == BulkCopyGuard(call) /\ Do(BulkCopy(call, mem))

Next ==
    \/ Naive
    \/ RevZero
    \/ RevTap
    \/ RevKernel
    \/ Replicas
    \/ MainLoop
    \/ Trap
    \/ TailInit
    \/ TailAdd
    \/ Copy

Spec == Init /\ [][Next]_vars

(* ------------------------------------------------------------------ *)
(* Two calls running concurrently on disjoint buffers of one memory   *)
(* ------------------------------------------------------------------ *)
ConcVariants == {"convolve_naive", "convolve_sse_simple", "convolve_sse_in_aligned"}

\* the kernel length the concurrent calls are made with
ConcK(v) == IF v \in Mult4Variants THEN SSE_SIMD_LENGTH ELSE 2

\* The caller hands the two calls the two halves of one output array
\* ("slices"), or two output buffers placed apart
PairLayouts == {"slices", "apart"}

\* memory holding the buffers of the calls in cs, prior contents elsewhere
MemOfCalls(cs, top, jv) ==
    [a \in 0..(top - 1) |->
        IF \E c \in cs : a - c.in \in 0..(c.length - 1)
        THEN LET c == CHOOSE c \in cs : a - c.in \in 0..(c.length - 1)
             IN SigVal(c.sig, a - c.in)
        ELSE IF \E c \in cs : a - c.kernel \in 0..(c.kernel_length - 1)
        THEN LET c == CHOOSE c \in cs : a - c.kernel \in 0..(c.kernel_length - 1)
             IN KerVal(c.ker, a - c.kernel)
        ELSE jv]

PairTop(c1, c2) == c2.kernel + c2.kernel_length + Pad

Init2 ==
    \E v1 \in ConcVariants, v2 \in ConcVariants, p \in 1..NumInputs,
       lay \in PairLayouts, j \in 1..NumJunk,
       d1 \in 0..MaxExtra, d2 \in 0..MaxExtra :
      LET K1 == ConcK(v1)
          K2 == ConcK(v2)
          N1 == K1 + d1
          N2 == K2 + d2
          out1 == 0
          out2 == OutLen(N1, K1) + (IF lay = "slices" THEN 0 ELSE Pad)
          in1 == out2 + OutLen(N2, K2) + Pad
          k1 == in1 + N1 + Pad
          in2 == k1 + K1 + Pad
          k2 == in2 + N2 + Pad
          c1 == NewCall(v1, N1, K1, in1, out1, k1, p, p, JunkVal(j), FALSE)
          c2 == NewCall(v2, N2, K2, in2, out2, k2, p, p, JunkVal(j), FALSE)
      IN /\ call = c1
         /\ call2 = c2
         /\ mem = MemOfCalls({c1, c2}, PairTop(c1, c2), JunkVal(j))
         /\ lin = NoLin

Me(id) == IF id = 1 THEN call ELSE call2

Do2(id, r) ==
    /\ mem' = r.m
    /\ IF id = 1 THEN call' = r.c /\ UNCHANGED call2
                 ELSE call2' = r.c /\ UNCHANGED call
    /\ UNCHANGED lin

Naive2(id) == NaiveGuard(Me(id)) /\ Do2(id, NaiveIter(Me(id), mem))

RevKernel2(id) == ReverseKernelGuard(Me(id)) /\ Do2(id, ReverseKernel(Me(id), mem))

Replicas2(id) == BuildReplicasGuard(Me(id)) /\ Do2(id, BuildReplicas(Me(id), mem))

MainLoop2(id) == MainLoopGuard(Me(id)) /\ Do2(id, MainLoopIter(Me(id), mem))

Trap2(id) ==
    /\ FaultGuard(Me(id), MappedOf(call) \cup MappedOf(call2))
    /\ Do2(id, Fault(Me(id), mem))

TailInit2(id) == TailZeroGuard(Me(id)) /\ Do2(id, TailZero(Me(id), mem))

TailAdd2(id) == TailTapGuard(Me(id)) /\ Do2(id, TailTap(Me(id), mem))

Next2 ==
    \E id \in {1, 2} :
        \/ Naive2(id)
        \/ RevKernel2(id)
        \/ Replicas2(id)
        \/ MainLoop2(id)
        \/ Trap2(id)
        \/ TailInit2(id)
        \/ TailAdd2(id)

Spec2 == Init2 /\ [][Next2]_vars

(* ------------------------------------------------------------------ *)
(* A whole call, run to its return without interruption               *)
(* ------------------------------------------------------------------ *)
StepOf(c, m) ==
    CASE NaiveGuard(c) -> NaiveIter(c, m)
      [] ReversedZeroGuard(c) -> ReversedZero(c, m)
      [] ReversedTapGuard(c) -> ReversedTap(c, m)
      [] ReverseKernelGuard(c) -> ReverseKernel(c, m)
      [] BuildReplicasGuard(c) -> BuildReplicas(c, m)
      [] MainLoopGuard(c) -> MainLoopIter(c, m)
      [] TailZeroGuard(c) -> TailZero(c, m)
      [] TailTapGuard(c) -> TailTap(c, m)
      [] BulkCopyGuard(c) -> BulkCopy(c, m)
      [] OTHER -> Res(c, m)

RECURSIVE RunToEnd(_, _)
RunToEnd(c, m) ==
    IF c.pc \in {"done", "fault", "none"} THEN Res(c, m)
    ELSE LET r == StepOf(c, m) IN RunToEnd(r.c, r.m)

\* the caller's output buffer, out[0 .. length - kernel_length]
OutOf(c, m) == [i \in 0..(c.length - c.kernel_length) |-> m[c.out + i]]

(* ------------------------------------------------------------------ *)
(* convolve_naive applied to a signal with a kernel a, with a scaled  *)
(* by c, with a kernel b, and with a + b                              *)
(* ------------------------------------------------------------------ *)
LinVals == {-1, 0, 2}

LinScalars == {-2, 3}

\* out[0..N-K] after convolve_naive(in, out, N, kernel, K) on buffers that
\* hold the signal sArr and the kernel kArr, out holding prior contents
NaiveOn(sArr, kArr, N, K) ==
    LET inB == InBase("apart", N, K)
        kB == KernelBase("apart", N, K)
        m0 == [a \in 0..(MemTop(N, K) - 1) |->
                 IF a - inB \in 0..(N - 1) THEN sArr[a - inB]
                 ELSE IF a - kB \in 0..(K - 1) THEN kArr[a - kB]
                 ELSE JunkVal(1)]
        c0 == NewCall("convolve_naive", N, K, inB, 0, kB, 0, 0, JunkVal(1), FALSE)
        r == RunToEnd(c0, m0)
    IN OutOf(r.c, r.m)

InitLin ==
    \E K \in 1..MaxLinK, p \in 1..NumInputs, c \in LinScalars :
      \E N \in K..(K + 1) :
        \E s \in [0..(N - 1) -> LinVals], a \in [0..(K - 1) -> LinVals] :
          /\ lin = [phase |-> "in", N |-> N, K |-> K, s |-> s, a |-> a,
                    b |-> [x \in 0..(K - 1) |-> KerVal(p, x)], c |-> c,
                    ra |-> << >>, rb |-> << >>, rca |-> << >>, rab |-> << >>]
          /\ call = NoCall
          /\ call2 = NoCall
          /\ mem = << >>

\* convolve_naive(s, a)
LinRunA ==
    /\ lin.phase = "in"
    /\ lin' = [lin EXCEPT !.phase = "a",
                          !.ra = NaiveOn(lin.s, lin.a, lin.N, lin.K)]
    /\ UNCHANGED <<mem, call, call2>>

\* convolve_naive(s, b)
LinRunB ==
    /\ lin.phase = "a"
    /\ lin' = [lin EXCEPT !.phase = "b",
                          !.rb = NaiveOn(lin.s, lin.b, lin.N, lin.K)]
    /\ UNCHANGED <<mem, call, call2>>

\* convolve_naive(s, c * a)
LinRunScaled ==
    /\ lin.phase = "b"
    /\ lin' = [lin EXCEPT !.phase = "ca",
                          !.rca = NaiveOn(lin.s,
                                          [x \in 0..(lin.K - 1) |-> lin.c * lin.a[x]],
                                          lin.N, lin.K)]
    /\ UNCHANGED <<mem, call, call2>>

\* convolve_naive(s, a + b)
LinRunSum ==
    /\ lin.phase = "ca"
    /\ lin' = [lin EXCEPT !.phase = "out",
                          !.rab = NaiveOn(lin.s,
                                          [x \in 0..(lin.K - 1) |-> lin.a[x] + lin.b[x]],
                                          lin.N, lin.K)]
    /\ UNCHANGED <<mem, call, call2>>

NextLin ==
    \/ LinRunA
    \/ LinRunB
    \/ LinRunScaled
    \/ LinRunSum

SpecLin == InitLin /\ [][NextLin]_vars

(* ------------------------------------------------------------------ *)
(* The valid-mode convolution of the caller's inputs                  *)
(* ------------------------------------------------------------------ *)
RECURSIVE Sigma(_, _)
Sigma(F, n) == IF n = 0 THEN 0 ELSE F[n - 1] + Sigma(F, n - 1)

\* sum over k = 0..K-1 of sig[i+k] * ker[K-1-k]
ConvRef(s, t, K, i) ==
    Sigma([k \in 0..(K - 1) |-> SigVal(s, i + k) * KerVal(t, K - 1 - k)], K)

Expected(c) ==
    [i \in 0..(c.length - c.kernel_length) |->
        ConvRef(c.sig, c.ker, c.kernel_length, i)]

Returned(c) == c.pc = "done"

(* ------------------------------------------------------------------ *)
(* Properties                                                         *)
(* ------------------------------------------------------------------ *)

\* C1: after convolve_naive returns, out[i] is the sum over k = 0..K-1 of
\* in[i+k] * kernel[K-1-k], for every i in 0..N-K.
C1_NaiveComputesConvolution ==
    (call.v = "convolve_naive" /\ Returned(call))
        => OutOf(call, mem) = Expected(call)

C1_Witness ==
    /\ call.v = "convolve_naive" /\ Returned(call)
    /\ call.kernel_length = 3 /\ call.length = 5
    /\ OutOf(call, mem) = [i \in 0..2 |-> 2]

\* the output convolve_naive leaves when called with the arguments of c on
\* memory m
NaiveOutput(c, m) ==
    LET n == NewCall("convolve_naive", c.length, c.kernel_length,
                     c.in, c.out, c.kernel, c.sig, c.ker, c.junk, FALSE)
        r == RunToEnd(n, m)
    IN OutOf(r.c, r.m)

\* C2: convolve_reversed_naive leaves in out[0..N-K] the values that
\* convolve_naive leaves when run on the same signal and kernel.
C2_ReversedEqualsNaive ==
    (call.v = "convolve_reversed_naive" /\ Returned(call))
        => OutOf(call, mem) = NaiveOutput(call, mem)

C2_Witness ==
    /\ call.v = "convolve_reversed_naive" /\ Returned(call)
    /\ call.kernel_length >= 2 /\ call.length > call.kernel_length
    /\ \E i \in 0..Last(call) : mem[call.out + i] # 0

NarrowVariants ==
    {"convolve_sse_simple", "convolve_sse_partial_unroll",
     "convolve_sse_in_aligned", "convolve_sse_in_aligned_fixed_kernel"}

\* C3: for every N >= K meeting the routine's kernel-length precondition,
\* each narrow-vector routine returns with out[i] equal to the reference
\* scalar kernel's out[i] for every i in 0..N-K, also when N-K is not a
\* multiple of 4.
C3_NarrowEqualsReference ==
    (call.v \in NarrowVariants /\ Returned(call))
        => \A i \in 0..Last(call) :
              mem[call.out + i] = ConvRef(call.sig, call.ker, call.kernel_length, i)

\* the statements of a main-loop iteration that add, into accumulator a,
\* tap t of the output lane the accumulator's lane stands for
TapStmts(nest, a, t) ==
    {n \in 0..(NumStmts(nest) - 1) :
        LET e == NthStmt(nest, n)
        IN e.a = a /\ e.kr = t /\ e.l + e.x = a * nest.w + t}

EachTapOnce(v) ==
    LET nest == Nest(v, KERNEL_LENGTH)
    IN /\ \A a \in 0..(nest.naccs - 1), t \in 0..(KERNEL_LENGTH - 1) :
             Cardinality(TapStmts(nest, a, t)) = 1
       /\ NumStmts(nest) = nest.naccs * KERNEL_LENGTH

\* C4: for every N >= 16 and K = 16, each 16-tap unrolled routine adds into
\* every output lane the 16 products in[i+t] * kernel[15-t], each tap once,
\* so that out[i] equals the reference's out[i] for every i in 0..N-16.
C4_SixteenTapEqualsReference ==
    (call.v \in SixteenTapVariants /\ Returned(call))
        => /\ EachTapOnce(call.v)
           /\ OutOf(call, mem) = Expected(call)

\* C5: every store to the caller's output buffer targets an index in
\* 0..N-K; nothing past out[N-K] is written.
C5_StoresWithinOutput ==
    call.pc # "none" => call.hi <= call.length - call.kernel_length

Scenario(c) ==
    /\ c.length = 5 /\ c.kernel_length = 3
    /\ \A x \in 0..4 : SigVal(c.sig, x) = x + 1
    /\ <<KerVal(c.ker, 0), KerVal(c.ker, 1), KerVal(c.ker, 2)>> = <<1, 0, -1>>

\* C6: called with signal [1,2,3,4,5] and kernel [1,0,-1], every routine
\* returns with out = [2,2,2], reads nothing outside in[0..4] and
\* kernel[0..2] and writes nothing outside out[0..2].
C6_ConcreteScenario ==
    (call.pc # "none" /\ Scenario(call))
        => /\ ~call.bad
           /\ call.hi <= 2
           /\ call.pc # "fault"
           /\ Returned(call) => OutOf(call, mem) = [i \in 0..2 |-> 2]

\* the products the fallback adds, in the order it adds them
TailProducts(c, m) ==
    [k \in 0..(KLen(c) - 1) |->
        TailSample(c, m, Last(c) + k) * m[c.kernel + (KLen(c) - 1 - k)]]

\* the first n products of the fallback, added up
RECURSIVE Prefix(_, _)
Prefix(F, n) == IF n = 0 THEN 0 ELSE Prefix(F, n - 1) + F[n - 1]

\* the cell the fallback accumulates into, and later the caller's out[N-K]
TailCell(c, m) ==
    IF IsLocalOut(c) /\ c.pc # "done"
    THEN c.local_out[Last(c)]
    ELSE m[c.out + Last(c)]

C7_State ==
    call.v \in VectorVariants =>
        /\ call.pc \in {"reverse", "replica", "main"} => call.tailw = {}
        /\ call.pc \in {"tail", "copy", "done"} => call.tailw = {Last(call)}
        /\ call.pc = "tail" =>
              TailCell(call, mem) = Prefix(TailProducts(call, mem), call.k)
        /\ call.pc \in {"copy", "done"} =>
              TailCell(call, mem) = Prefix(TailProducts(call, mem), KLen(call))

C7_Step ==
    (call.v \in VectorVariants /\ call.pc \in {"tail", "copy", "done"})
        => call'.nvec = call.nvec

C10_OutputIndependentOfPriorContents ==
    Returned(call) =>
        \A j \in 1..NumJunk :
            LET c2 == NewCall(call.v, call.length, call.kernel_length,
                              call.in, call.out, call.kernel,
                              call.sig, call.ker, JunkVal(j), call.adj)
                m2 == InitMem(call.length, call.kernel_length, call.in,
                              call.kernel, call.sig, call.ker, JunkVal(j))
                r2 == RunToEnd(c2, m2)
            IN OutOf(call, mem) = OutOf(r2.c, r2.m)

\* the output call c leaves when it runs alone from the memory the two
\* calls were started on
AloneOutput(c) ==
    LET c0 == NewCall(c.v, c.length, c.kernel_length, c.in, c.out, c.kernel,
                      c.sig, c.ker, c.junk, c.adj)
        m0 == MemOfCalls({call, call2}, PairTop(call, call2), c.junk)
        r == RunToEnd(c0, m0)
    IN OutOf(r.c, r.m)

\* the cells of the caller's memory call c has stored to so far
Written(c) == c.out .. (c.out + c.hi)

\* C8: two calls running concurrently on pairwise disjoint buffers each
\* finish with the output they would have if run alone, and no step of one
\* touches a cell of the other's buffers.
C8_ConcurrentCallsIndependent ==
    /\ (Returned(call) /\ Returned(call2)) =>
          /\ OutOf(call, mem) = AloneOutput(call)
          /\ OutOf(call2, mem) = AloneOutput(call2)
    /\ Written(call) \cap MappedOf(call2) = {}
    /\ Written(call2) \cap MappedOf(call) = {}

\* C9: convolve_naive is linear in the kernel: with the kernel scaled by c
\* the output is scaled by c, and with the sum of two kernels the output is
\* the sum of the two outputs, at every output index 0..N-K.
C9_NaiveLinearInKernel ==
    lin.phase = "out" =>
        \A i \in 0..(lin.N - lin.K) :
            /\ lin.rca[i] = lin.c * lin.ra[i]
            /\ lin.rab[i] = lin.ra[i] + lin.rb[i]

C9_Witness ==
    /\ lin.phase = "out" /\ lin.K = 2 /\ lin.N = 3
    /\ \E i \in 0..1 : lin.ra[i] # 0 /\ lin.rb[i] # 0 /\ lin.rca[i] # lin.ra[i]

\* C11 as stated: during one call of any routine, every element out[0..N-K]
\* of the caller's output buffer is the target of exactly one store.
C11_EachOutputWrittenOnce ==
    Returned(call) => \A i \in 0..Last(call) : call.wr[i] = 1

\* the stores out[N-K] receives from a vectorised routine that stores to the
\* caller's buffer: the fallback's zeroing store and its K accumulating
\* stores, and the last vector store when that one reaches index N-K
TailStores(c) ==
    KLen(c) + 1
    + (IF Last(c) > 0 /\ Last(c) % NestOf(c).step # 0 THEN 1 ELSE 0)

\* C11 as amended: every element out[0..N-K] is stored to at least once
\* during the call: exactly once by convolve_avx_unrolled_vector_local_output
\* (its bulk copy), K+1 times by the two scalar routines, and by the other
\* vectorised routines once for i < N-K and, for i = N-K, K+1 times by the
\* fallback plus once when the last vector store covers index N-K.
C11_EachOutputWritten ==
    Returned(call) =>
        \A i \in 0..Last(call) :
            /\ call.wr[i] >= 1
            /\ IsLocalOut(call) => call.wr[i] = 1
            /\ call.v \in ScalarVariants => call.wr[i] = call.kernel_length + 1
            /\ (call.v \in VectorVariants /\ ~IsLocalOut(call)) =>
                   call.wr[i] = IF i < Last(call) THEN 1 ELSE TailStores(call)

C11_Witness ==
    /\ Returned(call)
    /\ call.v \in VectorVariants /\ ~IsLocalOut(call)
    /\ Last(call) > 1
    /\ call.wr[0] = 1
    /\ call.wr[Last(call)] = KLen(call) + 2

\* the 8-lane routines, whose main loop advances by VECTOR_LENGTH
WideVariants ==
    {v \in FixedVariants : Nest(v, KERNEL_LENGTH).w = AVX_SIMD_LENGTH}

\* the output indices that remain after the last step of VECTOR_LENGTH
\* indices that fits in 0..N-K
Leftover(c) ==
    {x \in 0..Last(c) : x >= VECTOR_LENGTH * ((Last(c) + 1) \div VECTOR_LENGTH)}

\* C12: in every wide routine (K = 16, N >= 16) the main loop takes a step
\* only if all 16 indices it stores lie in 0..N-16, so no vector store
\* reaches past out[N-16], and every index left over after the last full
\* step is computed by the scalar fallback.
C12_WideStepsWithinOutput ==
    (call.pc # "none" /\ call.v \in WideVariants) =>
        /\ \A x \in DOMAIN call.vw : call.vw[x] > 0 => x <= Last(call)
        /\ Returned(call) => Leftover(call) \subseteq call.tailw

\* the indices of local_out stored to so far, by the main loop or the fallback
LocalWritten(c) == {x \in DOMAIN c.vw : c.vw[x] > 0} \cup c.tailw

C13_State ==
    IsLocalOut(call) =>
        /\ call.pc \in {"reverse", "replica", "main", "tail", "copy"} =>
              \A i \in 0..Last(call) : call.wr[i] = 0
        /\ Returned(call) => \A i \in 0..Last(call) : call.wr[i] = 1

C13_Step ==
    IsLocalOut(call) =>
        /\ call.pc # "copy" => OutOf(call, mem') = OutOf(call, mem)
        /\ call.pc = "copy" =>
              /\ \A i \in 0..Last(call) :
                    /\ mem'[call.out + i] = call.local_out[i]
                    /\ i \in LocalWritten(call)
              /\ \A a \in DOMAIN mem :
                    a - call.out \notin 0..Last(call) => mem'[a] = mem[a]

\* C13: in convolve_avx_unrolled_vector_local_output the caller's out is not
\* written by the main loop or by the fallback; it is unchanged until the
\* one final bulk copy, which copies exactly local_out[0..N-16] into
\* out[0..N-16], each element of which was stored to local_out before.
C13_LocalOutputFrame == []C13_State /\ [][C13_Step]_vars

C13_Witness ==
    /\ IsLocalOut(call) /\ Returned(call)
    /\ call.nvec > 0 /\ Last(call) > 1
    /\ \E i \in 0..Last(call) : mem[call.out + i] # call.junk

\* the routines whose main loop uses the aligned load instructions C14 names
AlignedLoadVariants ==
    {"convolve_sse_in_aligned",
     "convolve_avx_unrolled_vector_aligned",
     "convolve_avx_unrolled_vector_partial_aligned"}

\* C14: with in_aligned itself aligned, every _mm_load_ps of
\* convolve_sse_in_aligned reads from an address l*N + data_offset that is a
\* multiple of 4 floats, and every _mm256_load_ps of
\* convolve_avx_unrolled_vector_aligned and _partial_aligned from an address
\* l*N + data_offset + m that is a multiple of 8 floats, for every N >= K.
C14_AlignedLoadsAligned ==
    (call.pc # "none" /\ call.v \in AlignedLoadVariants) => ~call.misal

\* the replica-building loop has just ended
ReplicasBuilt(c) ==
    c.pc = "main" /\ c.v \in VectorVariants /\ NestOf(c).rows /\ c.nvec = 0

\* C15: after the replica-building loop, for every replica j built (0..3, or
\* 0..7 in convolve_avx_unrolled_vector_aligned) and every x in 0..N-1-j,
\* in_aligned[j][x] = in[j+x]; the copy of replica j read only in[j..N-1],
\* and the caller's signal is unchanged.
C15_ReplicasAreShiftedCopies ==
    ReplicasBuilt(call) =>
        LET N == call.length
            rows == NestOf(call).copied
        IN /\ rows = IF call.v = "convolve_avx_unrolled_vector_aligned"
                     THEN 8 ELSE 4
           /\ DOMAIN call.copyrd = 0..(rows - 1)
           /\ \A j \in 0..(rows - 1) :
                 /\ \A x \in 0..(N - 1 - j) :
                       call.in_aligned[RowCell(N, j, x)] = mem[call.in + j + x]
                 /\ call.copyrd[j] # {}
                 /\ call.copyrd[j] \subseteq j..(N - 1)
           /\ \A x \in 0..(N - 1) : mem[call.in + x] = SigVal(call.sig, x)

C15_Witness ==
    /\ ReplicasBuilt(call)
    /\ call.v = "convolve_avx_unrolled_vector_aligned"
    /\ call.length = 17 /\ call.sig = 1
    /\ call.in_aligned[RowCell(17, 7, 9)] = 17
    /\ call.in_aligned[RowCell(17, 7, 10)] = call.junk

\* sum over k = 0..n-1 of sig[i+k] * ker[K-1-k]
PartialRef(s, t, K, i, n) ==
    Sigma([k \in 0..(n - 1) |-> SigVal(s, i + k) * KerVal(t, K - 1 - k)], n)

\* C16: in convolve_reversed_naive every out[i], i in 0..N-K, is set to zero
\* before the first accumulation into any element; after t iterations of the
\* outer loop every out[i] is the sum over k < t of in[i+k] * kernel[K-1-k];
\* and no out[i] receives tap k+1 before every out[i'] has received tap k.
C16_ReversedTapByTap ==
    (call.pc # "none" /\ call.v = "convolve_reversed_naive") =>
        LET I == 0..Last(call)
            K == call.kernel_length
        IN /\ call.pc = "zero" =>
                 \A i \in I : /\ call.wr[i] = IF i < call.i THEN 1 ELSE 0
                              /\ i < call.i => mem[call.out + i] = 0
           /\ call.pc \in {"main", "done"} =>
                 /\ \A i \in I :
                       /\ call.wr[i] >= 1
                       /\ mem[call.out + i] =
                             PartialRef(call.sig, call.ker, K, i, call.wr[i] - 1)
                 /\ \A i \in I, j \in I : call.wr[i] <= call.wr[j] + 1
                 /\ call.i = 0 => \A i \in I : call.wr[i] - 1 = call.k

C16_Witness ==
    /\ call.v = "convolve_reversed_naive" /\ call.pc = "main"
    /\ call.kernel_length = 3 /\ call.length = 5
    /\ call.k = 1 /\ call.i = 2
    /\ call.wr = [i \in 0..2 |-> IF i < 2 THEN 3 ELSE 2]
    /\ mem[call.out] # 0

\* C17: for every vectorised routine and every N >= K meeting its
\* precondition, every lane of every vector load of the main loop reads a
\* signal sample with index in 0..N-1; in the replica routines every loaded
\* in_aligned[l][x] has x <= N-1-l, an element the replica copy initialised.
C17_LoadLanesAreSamples ==
    (call.pc # "none" /\ call.v \in VectorVariants) => ~call.bad

\* the indices the main loop's vector stores have targeted so far
VectorTargets(c) == {x \in DOMAIN c.vw : c.vw[x] > 0}

\* the main loop has ended
MainLoopOver(c) ==
    c.v \in VectorVariants /\ c.pc \in {"tail", "copy", "done"}

\* what C18 says of the calls with N > K and N-K a multiple of the step S:
\* the vector stores target exactly 0..N-K-1, each index by exactly one
\* store, and the fallback targets index N-K only
ExactStores(c) ==
    /\ VectorTargets(c) = 0..(Last(c) - 1)
    /\ \A x \in VectorTargets(c) : c.vw[x] = 1
    /\ c.nvec = (Last(c) \div NestOf(c).step) * NestOf(c).naccs
    /\ c.tailw = {Last(c)}

\* the main loop stored to an index greater than N-K
Overrun(c) == \E x \in VectorTargets(c) : x > Last(c)

\* C18 as stated: for every vectorised routine of main-loop step S, when
\* N > K and N-K is a multiple of S the vector stores target exactly the
\* indices 0..N-K-1, each once, and the fallback only N-K; when N > K and
\* N-K is not a multiple of S the last iteration stores to an index above N-K.
C18_StoreTargets ==
    (MainLoopOver(call) /\ Last(call) > 0) =>
        IF Last(call) % NestOf(call).step = 0
        THEN ExactStores(call)
        ELSE Overrun(call)

\* C18 as amended: as stated when N-K is a multiple of S; the last
\* iteration stores to an index above N-K when N > K and N-K mod S is
\* neither 0 nor S-1; when N-K mod S is S-1 the vector stores target exactly
\* 0..N-K, each once, none above N-K, and the fallback stores to N-K again.
C18_StoreTargetsByResidue ==
    (MainLoopOver(call) /\ Last(call) > 0) =>
        LET S == NestOf(call).step
            r == Last(call) % S
        IN /\ r = 0 => ExactStores(call)
           /\ r # 0 =>
                 /\ VectorTargets(call) = 0..(S * ((Last(call) \div S) + 1) - 1)
                 /\ \A x \in VectorTargets(call) : call.vw[x] = 1
                 /\ call.tailw = {Last(call)}
           /\ r \notin {0, S - 1} => Overrun(call)
           /\ r = S - 1 => VectorTargets(call) = 0..Last(call) /\ ~Overrun(call)

C18_Witness ==
    /\ MainLoopOver(call) /\ Returned(call)
    /\ NestOf(call).step = AVX_SIMD_LENGTH
    /\ Last(call) = AVX_SIMD_LENGTH - 1
    /\ VectorTargets(call) = 0..Last(call)
    /\ call.nvec = 2

====
